---- MODULE Spec2Model ----
(***************************************************************************)
(* Invoice Agent API (foundry_agent_demo/invoice_agent_api.py): a Flask    *)
(* routing layer over InvoiceAgentService, which drives the remote agent   *)
(* platform (threads.create, messages.create, runs.create_and_process,     *)
(* messages.list).  One action per HTTP handler; the platform is the       *)
(* environment and may raise on any call.                                  *)
(***************************************************************************)
EXTENDS Integers, Sequences, FiniteSets, TLC

\* ------------------------------------------------------------------ bounds
MaxThreads == 2        \* threads the platform issues before refusing
MaxMsgs == 2           \* messages the platform stores before refusing

\* ------------------------------------------------------------ Python values
None == "None"                       \* Python None / JSON null
NoAttr == <<>>                       \* the attribute does not exist (hasattr false)
Attr(v) == <<v>>                     \* an attribute that exists, holding v

ThreadNames == <<"t1", "t2", "t3", "t4">>

\* slip: every thread_id counts as absent, so a thread is always created
Truthy_never(v) == FALSE

\* truth value of a thread_id argument: None and "" are falsy (line 58)
Truthy(v) == v # None /\ v # ""

\* ----------------------------------------------------------- request bodies
MessageVals == {"", "Hello"}
\* thread ids callers send: null, the empty string, ids the platform may issue
SuppliedThreadIds == {ThreadNames[1], ThreadNames[2]}
ThreadVals == {None, ""} \cup SuppliedThreadIds
ObjFields ==
    {<<>>}
    \cup {[thread_id |-> t] : t \in {ThreadNames[1]}}
    \cup {[message |-> m] : m \in MessageVals}
    \cup {[message |-> m, thread_id |-> t] : m \in MessageVals, t \in ThreadVals}
Bodies ==
    {[kind |-> "unparsable", items |-> <<>>, fields |-> <<>>],
     [kind |-> "null", items |-> <<>>, fields |-> <<>>]}
    \cup {[kind |-> "list", items |-> s, fields |-> <<>>] :
            s \in {<<>>, <<"x">>, <<"message">>}}
    \cup {[kind |-> "obj", items |-> <<>>, fields |-> f] : f \in ObjFields}
NoBody == [kind |-> "none", items |-> <<>>, fields |-> <<>>]

\* request.get_json(): raises on a body that is not JSON, else the parsed value
get_json(body) ==
    IF body.kind = "unparsable"
    THEN [raised |-> TRUE, e |-> "400 Bad Request", data |-> body]
    ELSE [raised |-> FALSE, e |-> "", data |-> body]

\* `not data`: None, {} and [] are falsy
NotData(data) ==
    \/ data.kind = "null"
    \/ data.kind = "list" /\ data.items = <<>>
    \/ data.kind = "obj" /\ DOMAIN data.fields = {}

\* slip: the membership test is dropped
HasMessage_any(data) == TRUE

\* `'message' in data`
HasMessage(data) ==
    \/ data.kind = "list" /\ \E i \in DOMAIN data.items : data.items[i] = "message"
    \/ data.kind = "obj" /\ "message" \in DOMAIN data.fields

\* data['message']: TypeError on a list, KeyError on a missing key
GetItem(data, key) ==
    IF data.kind # "obj" THEN [raised |-> TRUE, e |-> "TypeError", v |-> None]
    ELSE IF key \notin DOMAIN data.fields THEN [raised |-> TRUE, e |-> "KeyError", v |-> None]
    ELSE [raised |-> FALSE, e |-> "", v |-> data.fields[key]]

\* data.get('thread_id'): None when the key is absent
DictGet(data, key) ==
    IF key \in DOMAIN data.fields THEN data.fields[key] ELSE None

\* ------------------------------------------------------- the agent platform
RunStatuses == {"completed", "failed", "cancelled", "expired"}
Faults == {"none", "create", "post", "run", "list"}
ReplyShapes == {"text", "notext", "malformed", "nocreated"}
\* what the platform does during one request: which call raises, the terminal
\* status of the run, the shape of the agent's reply
Envs ==
    {[fault |-> f, status |-> "completed", reply |-> "text"] : f \in Faults}
    \cup {[fault |-> "none", status |-> s, reply |-> "text"] : s \in RunStatuses}
    \cup {[fault |-> "none", status |-> "completed", reply |-> r] : r \in ReplyShapes}
    \cup {[fault |-> "list", status |-> "cancelled", reply |-> "text"]}

\* messages stored on the platform; also its logical clock
RECURSIVE SumLen(_, _)
SumLen(threads, n) ==
    IF n = 0 THEN 0 ELSE Len(threads[ThreadNames[n]]) + SumLen(threads, n - 1)
Clock(P) == SumLen(P.threads, Cardinality(DOMAIN P.threads))

PlatformLastError == "server_error"  \* run.last_error of a failed run

Segment(v) == [text |-> v]           \* a text segment; .text is None when malformed

ReplyMessage(shape, clock) ==
    [role |-> "assistant",
     text_messages |->
        CASE shape = "notext" -> <<>>
          [] shape = "malformed" -> <<Segment("draft"), Segment(None)>>
          [] OTHER -> <<Segment("draft"), Segment("reply")>>,
     created_at |-> IF shape = "nocreated" THEN NoAttr ELSE Attr(clock)]

Reverse(s) == [i \in 1..Len(s) |-> s[Len(s) + 1 - i]]

\* slip: the listing is requested newest first
ListSortOrder_DESCENDING == "desc"

ListSortOrder_ASCENDING == "asc"

\* agents.threads.create()
threads_create(P, env) ==
    IF env.fault = "create" \/ Cardinality(DOMAIN P.threads) >= MaxThreads
    THEN [raised |-> TRUE, e |-> "threads.create failed", id |-> None, P |-> P]
    ELSE LET id == ThreadNames[Cardinality(DOMAIN P.threads) + 1]
         IN [raised |-> FALSE, e |-> "", id |-> id,
             P |-> [threads |-> (id :> <<>>) @@ P.threads]]

\* agents.messages.create(thread_id, role, content)
messages_create(P, thread_id, role, content, env) ==
    IF \/ env.fault = "post"
       \/ thread_id \notin DOMAIN P.threads
       \/ Clock(P) >= MaxMsgs
    THEN [raised |-> TRUE, e |-> "messages.create failed", P |-> P]
    ELSE [raised |-> FALSE, e |-> "",
          P |-> [threads |-> [P.threads EXCEPT ![thread_id] =
                                Append(@, [role |-> role,
                                           text_messages |-> <<Segment(content)>>,
                                           created_at |-> Attr(Clock(P))])]]]

\* agents.runs.create_and_process(thread_id, agent_id): blocks until the run
\* is terminal; a completed run has appended the agent's reply
runs_create_and_process(P, thread_id, env) ==
    IF \/ env.fault = "run"
       \/ thread_id \notin DOMAIN P.threads
       \/ env.status = "completed" /\ Clock(P) >= MaxMsgs
    THEN [raised |-> TRUE, e |-> "runs.create_and_process failed",
          run |-> [status |-> None, last_error |-> None], P |-> P]
    ELSE IF env.status = "completed"
    THEN [raised |-> FALSE, e |-> "",
          run |-> [status |-> "completed", last_error |-> None],
          P |-> [threads |-> [P.threads EXCEPT ![thread_id] =
                                Append(@, ReplyMessage(env.reply, Clock(P)))]]]
    ELSE [raised |-> FALSE, e |-> "",
          run |-> [status |-> env.status,
                   last_error |-> IF env.status = "failed" THEN PlatformLastError ELSE None],
          P |-> P]

\* agents.messages.list(thread_id, order)
messages_list(P, thread_id, order, env) ==
    IF env.fault = "list" \/ thread_id \notin DOMAIN P.threads
    THEN [raised |-> TRUE, e |-> "messages.list failed", messages |-> <<>>]
    ELSE [raised |-> FALSE, e |-> "",
          messages |-> IF order = "asc" THEN P.threads[thread_id]
                       ELSE Reverse(P.threads[thread_id])]

\* ------------------------------------------------- InvoiceAgentService
\* one platform call as the handler saw it: the operation, the thread it was
\* for (the thread returned, for create), whether it raised, the run's status
Call(op, thread_id, raised, status) ==
    [op |-> op, thread_id |-> thread_id, raised |-> raised, status |-> status]

isoformat(t) == <<"iso", t>>         \* datetime.isoformat(): the ISO-8601 text of t

hasattr_created_at(msg) == msg.created_at # NoAttr

\* the loop of lines 92-99 (and 207-214): messages without text segments are
\* skipped, the content is the last text segment, a segment without .text raises
RECURSIVE FormatMessages(_, _)
FormatMessages(messages, now) ==
    IF messages = <<>> THEN [raised |-> FALSE, e |-> "", conversation |-> <<>>]
    ELSE LET msg == Head(messages)
             rest == FormatMessages(Tail(messages), now)
             segs == msg.text_messages
         IN IF segs = <<>> THEN rest
            ELSE IF segs[Len(segs)].text = None
            THEN [raised |-> TRUE,
                  e |-> "'NoneType' object has no attribute 'value'",
                  conversation |-> <<>>]
            ELSE IF rest.raised THEN rest
            ELSE [raised |-> FALSE, e |-> "",
                  conversation |->
                     <<[role |-> msg.role,
                        content |-> segs[Len(segs)].text,
                        timestamp |-> IF hasattr_created_at(msg)
                                      THEN isoformat(msg.created_at[1])
                                      ELSE isoformat(now)]>>
                     \o rest.conversation]

\* slip: the failed status is not recognised
RunFailed_never(status) == FALSE

\* `run.status == "failed"` (line 76)
RunFailed(status) == status = "failed"

\* slip: the except branch forgets the thread id
ExceptEnvelope_nothread(e, thread_id) ==
    [success |-> FALSE,
     error |-> <<"Error processing message: ", e>>,
     thread_id |-> None]

\* the except branch of process_invoice_message (lines 108-115)
ExceptEnvelope(e, thread_id) ==
    [success |-> FALSE,
     error |-> <<"Error processing message: ", e>>,
     thread_id |-> thread_id]

\* the failed-run return (lines 76-83)
FailedRunEnvelope(run, thread_id) ==
    [success |-> FALSE,
     error |-> <<"Agent run failed: ", run.last_error>>,
     thread_id |-> thread_id]

\* slip: the success envelope forgets the thread id
SuccessEnvelope_nothread(thread_id, conversation, run) ==
    [success |-> TRUE,
     thread_id |-> None,
     conversation |-> conversation,
     run_status |-> run.status]

\* the success return (lines 101-106)
SuccessEnvelope(thread_id, conversation, run) ==
    [success |-> TRUE,
     thread_id |-> thread_id,
     conversation |-> conversation,
     run_status |-> run.status]

\* lines 85-106: list the thread, format it, return the success envelope
ListAndFormat(P, thread_id, run, env, calls) ==
    LET l == messages_list(P, thread_id, ListSortOrder_ASCENDING, env)
        calls2 == Append(calls, Call("list_messages", thread_id, l.raised, None))
        f == FormatMessages(l.messages, Clock(P))
    IN IF l.raised THEN [result |-> ExceptEnvelope(l.e, thread_id), P |-> P, calls |-> calls2]
       ELSE IF f.raised THEN [result |-> ExceptEnvelope(f.e, thread_id), P |-> P, calls |-> calls2]
       ELSE [result |-> SuccessEnvelope(thread_id, f.conversation, run),
             P |-> P, calls |-> calls2]

\* lines 63-83: post the user message, run the agent, stop on a failed run
PostAndRun(P, user_message, thread_id, env, calls) ==
    LET m == messages_create(P, thread_id, "user", user_message, env)
        calls2 == Append(calls, Call("post_message", thread_id, m.raised, None))
        r == runs_create_and_process(m.P, thread_id, env)
        calls3 == Append(calls2, Call("run_and_wait", thread_id, r.raised, r.run.status))
    IN IF m.raised THEN [result |-> ExceptEnvelope(m.e, thread_id), P |-> P, calls |-> calls2]
       ELSE IF r.raised
       THEN [result |-> ExceptEnvelope(r.e, thread_id), P |-> m.P, calls |-> calls3]
       ELSE IF RunFailed(r.run.status)
       THEN [result |-> FailedRunEnvelope(r.run, thread_id), P |-> r.P, calls |-> calls3]
       ELSE ListAndFormat(r.P, thread_id, r.run, env, calls3)

\* InvoiceAgentService.process_invoice_message(user_message, thread_id)
process_invoice_message(P, user_message, thread_id, env) ==
    IF ~Truthy(thread_id)
    THEN LET c == threads_create(P, env)
             calls == <<Call("create_thread", c.id, c.raised, None)>>
         IN IF c.raised
            THEN [result |-> ExceptEnvelope(c.e, thread_id), P |-> P, calls |-> calls]
            ELSE PostAndRun(c.P, user_message, c.id, env, calls)
    ELSE PostAndRun(P, user_message, thread_id, env, <<>>)

\* ------------------------------------------------------ module start-up
\* InvoiceAgentService.__init__ / setup_client: raises when the client cannot
\* be built or agents.get_agent fails
setup_client(startup) == [raised |-> startup # "ok", e |-> startup]

\* lines 117-122: the global handle is the service, or None when construction raised
InitService(startup) ==
    IF setup_client(startup).raised THEN None ELSE "InvoiceAgentService"

StartupOutcomes == {"ok", "get_agent failed", "client construction failed"}

\* ------------------------------------------------------ HTTP routing layer
\* slip: the availability guard is dropped
ServiceAvailable_always(service) == TRUE

\* `if not invoice_service` is false: the handle is set
ServiceAvailable(service) == service # None

Response(status, body, P, calls) ==
    [status |-> status, body |-> body, P |-> P, calls |-> calls]

\* slip: the 503 body has no success field
UnavailableBody_nosuccess == [error |-> "Invoice service not available"]

\* the 503 body of lines 138-141, 173-176, 196-199
UnavailableBody == [success |-> FALSE, error |-> "Invoice service not available"]

\* the 400 body of lines 147-150
MissingMessageBody == [success |-> FALSE, error |-> "Missing 'message' in request body"]

\* the 500 body of the handlers' own except branches
HandlerErrorBody(prefix, e) == [success |-> FALSE, error |-> <<prefix, e>>]

\* invoice_service.<attribute>: AttributeError on a None handle
ServiceAttr(service) ==
    IF service = None
    THEN [raised |-> TRUE, e |-> "'NoneType' object has no attribute"]
    ELSE [raised |-> FALSE, e |-> ""]

\* GET /
health_check(service, P) ==
    Response(200,
             [status |-> "healthy",
              service |-> "Invoice Agent API",
              timestamp |-> isoformat(Clock(P)),
              agent_available |-> service # None],
             P, <<>>)

\* POST /api/invoice/chat
chat_with_agent(service, body, P, env) ==
    IF ~ServiceAvailable(service) THEN Response(503, UnavailableBody, P, <<>>)
    ELSE LET j == get_json(body)
             data == j.data
             um == GetItem(data, "message")
             thread_id == DictGet(data, "thread_id")
             pc == ServiceAttr(service)
             r == process_invoice_message(P, um.v, thread_id, env)
         IN IF j.raised
            THEN Response(500, HandlerErrorBody("Internal server error: ", j.e), P, <<>>)
            ELSE IF NotData(data) \/ ~HasMessage(data)
            THEN Response(400, MissingMessageBody, P, <<>>)
            ELSE IF um.raised
            THEN Response(500, HandlerErrorBody("Internal server error: ", um.e), P, <<>>)
            ELSE IF pc.raised
            THEN Response(500, HandlerErrorBody("Internal server error: ", pc.e), P, <<>>)
            ELSE IF r.result.success THEN Response(200, r.result, r.P, r.calls)
            ELSE Response(500, r.result, r.P, r.calls)

\* POST /api/invoice/new-thread
create_new_thread(service, P, env) ==
    IF ~ServiceAvailable(service) THEN Response(503, UnavailableBody, P, <<>>)
    ELSE LET pc == ServiceAttr(service)
             c == threads_create(P, env)
             calls == <<Call("create_thread", c.id, c.raised, None)>>
         IN IF pc.raised
            THEN Response(500, HandlerErrorBody("Failed to create thread: ", pc.e), P, <<>>)
            ELSE IF c.raised
            THEN Response(500, HandlerErrorBody("Failed to create thread: ", c.e), P, calls)
            ELSE Response(200,
                          [success |-> TRUE,
                           thread_id |-> c.id,
                           created_at |-> isoformat(Clock(c.P))],
                          c.P, calls)

\* GET /api/invoice/thread/<thread_id>/messages
get_thread_messages(service, thread_id, P, env) ==
    IF ~ServiceAvailable(service) THEN Response(503, UnavailableBody, P, <<>>)
    ELSE LET pc == ServiceAttr(service)
             l == messages_list(P, thread_id, ListSortOrder_ASCENDING, env)
             calls == <<Call("list_messages", thread_id, l.raised, None)>>
             f == FormatMessages(l.messages, Clock(P))
         IN IF pc.raised
            THEN Response(500, HandlerErrorBody("Failed to get messages: ", pc.e), P, <<>>)
            ELSE IF l.raised
            THEN Response(500, HandlerErrorBody("Failed to get messages: ", l.e), P, calls)
            ELSE IF f.raised
            THEN Response(500, HandlerErrorBody("Failed to get messages: ", f.e), P, calls)
            ELSE Response(200,
                          [success |-> TRUE,
                           thread_id |-> thread_id,
                           messages |-> f.conversation],
                          P, calls)

\* ------------------------------------------------------------ state machine
VARIABLES
    invoice_service,   \* the module-level handle: None or the service
    threads,           \* platform: thread id -> messages in creation order
    req,               \* the request last handled
    resp,              \* its response: HTTP status and JSON body
    calls              \* the platform calls made while handling it, in order

vars == <<invoice_service, threads, req, resp, calls>>

Platform == [threads |-> threads]

Request(endpoint, body, path) == [endpoint |-> endpoint, body |-> body, path |-> path]

PathThreadIds == SuppliedThreadIds

Init ==
    /\ \E startup \in StartupOutcomes : invoice_service = InitService(startup)
    /\ threads = <<>>
    /\ req = Request("none", NoBody, None)
    /\ resp = [status |-> 0, body |-> <<>>]
    /\ calls = <<>>

Answer(request, r) ==
    /\ req' = request
    /\ resp' = [status |-> r.status, body |-> r.body]
    /\ calls' = r.calls
    /\ threads' = r.P.threads
    /\ UNCHANGED invoice_service

HealthCheck ==
    Answer(Request("health", NoBody, None), health_check(invoice_service, Platform))

ChatWithAgent ==
    \E body \in Bodies, env \in Envs :
        Answer(Request("chat", body, None),
               chat_with_agent(invoice_service, body, Platform, env))

CreateNewThread ==
    \E env \in Envs :
        Answer(Request("new-thread", NoBody, None),
               create_new_thread(invoice_service, Platform, env))

GetThreadMessages ==
    \E thread_id \in PathThreadIds, env \in Envs :
        Answer(Request("messages", NoBody, thread_id),
               get_thread_messages(invoice_service, thread_id, Platform, env))

Next == HealthCheck \/ ChatWithAgent \/ CreateNewThread \/ GetThreadMessages

Spec == Init /\ [][Next]_vars

\* ------------------------------------------------------------------ claims
Initialized == invoice_service # None
AgentEndpoints == {"chat", "new-thread", "messages"}
ChatReq == req.endpoint = "chat"
HasKey(k) == req.body.kind = "obj" /\ k \in DOMAIN req.body.fields
BodyHas(k) == k \in DOMAIN resp.body
\* the chat request passed validation and reached process_invoice_message
Dispatched == ChatReq /\ Initialized /\ HasKey("message")
CallsOf(op) == {i \in DOMAIN calls : calls[i].op = op}
PlatformOps == {"create_thread", "post_message", "run_and_wait", "list_messages"}

\* C1: with the gateway uninitialized (invoice_service is None) chat, new-thread
\* and messages answer 503 with success=false and make no platform call, the
\* health check answers 200 with agent_available=false, and the handle is never
\* re-established by any request.
C1_StateOk ==
    ~Initialized =>
        /\ req.endpoint \in AgentEndpoints =>
              /\ resp.status = 503
              /\ BodyHas("success") /\ resp.body.success = FALSE
              /\ calls = <<>>
        /\ req.endpoint = "health" =>
              /\ resp.status = 200
              /\ resp.body.agent_available = FALSE
        /\ threads = <<>>
C1_Unavailable503 ==
    [](C1_StateOk) /\ [][invoice_service' = invoice_service]_vars
C1_Witness ==
    /\ ~Initialized
    /\ req.endpoint = "messages"
    /\ resp.status = 503

\* the parsed body is empty (null, {}, []) or an object without a message key
EmptyOrNoMessageKey ==
    \/ req.body.kind = "null"
    \/ req.body.kind = "list" /\ Len(req.body.items) = 0
    \/ req.body.kind = "obj" /\ "message" \notin DOMAIN req.body.fields

\* C2: with the gateway initialized, a chat request whose JSON body is empty or
\* has no message key is answered with exactly 400 and success=false, and no
\* platform operation is called.
C2_MissingMessage400 ==
    (ChatReq /\ Initialized /\ EmptyOrNoMessageKey) =>
        /\ resp.status = 400
        /\ BodyHas("success") /\ resp.body.success = FALSE
        /\ BodyHas("error")
        /\ calls = <<>>
C2_Witness ==
    /\ ChatReq /\ Initialized
    /\ req.body.kind = "obj"
    /\ DOMAIN req.body.fields = {"thread_id"}
    /\ resp.status = 400

\* C3: every input-validation failure of a chat request, a body that cannot be
\* parsed as JSON included, is reported with 400 and an error, never 500, and
\* no platform call is attempted.
C3_ValidationFailure400 ==
    (ChatReq /\ Initialized /\ (req.body.kind = "unparsable" \/ EmptyOrNoMessageKey)) =>
        /\ resp.status = 400
        /\ BodyHas("error")
        /\ calls = <<>>

\* the thread_id the chat request carries
SuppliedThread == req.body.fields["thread_id"]
UserMessageOn(tid) ==
    \E i \in DOMAIN threads[tid] :
        /\ threads[tid][i].role = "user"
        /\ threads[tid][i].text_messages = <<Segment(req.body.fields["message"])>>
PostedOnSupplied ==
    /\ CallsOf("create_thread") = {}
    /\ Len(calls) >= 1
    /\ calls[1].op = "post_message"
    /\ calls[1].thread_id = SuppliedThread
    /\ ~calls[1].raised => UserMessageOn(SuppliedThread)

\* C4 as stated: for every chat call carrying a thread_id string, the empty
\* string included, thread creation is never called and the user message is
\* posted on the supplied thread.
C4_AnyStringThreadNoCreate ==
    (Dispatched /\ HasKey("thread_id") /\ SuppliedThread # None) => PostedOnSupplied

\* C4 amended: for every chat call carrying a non-empty thread_id string, thread
\* creation is never called and the user message is posted on the supplied
\* thread; an empty thread_id is treated as absent.
C4_NonEmptyThreadNoCreate ==
    (Dispatched /\ HasKey("thread_id") /\ SuppliedThread \notin {None, ""}) =>
        PostedOnSupplied
C4_Witness ==
    /\ Dispatched /\ HasKey("thread_id")
    /\ SuppliedThread = "t1"
    /\ resp.status = 200
    /\ Len(resp.body.conversation) = 2

\* role and content of each entry of a formatted conversation
RoleContent(conversation) ==
    [i \in DOMAIN conversation |->
        <<conversation[i].role, conversation[i].content>>]

\* the step handled a chat request with a message and no thread_id
ChatNoThreadStep ==
    /\ req'.endpoint = "chat" /\ Initialized
    /\ req'.body.kind = "obj"
    /\ DOMAIN req'.body.fields = {"message"}
\* the state answers a chat request with a message and no thread_id
ChatNoThread ==
    /\ ChatReq /\ Initialized
    /\ req.body.kind = "obj"
    /\ DOMAIN req.body.fields = {"message"}

\* C5: a chat call with a message and no thread_id calls thread creation exactly
\* once, first; the thread it returns is new, is the only thread added, is the
\* thread of the post, the run and the listing of that call and the thread_id of
\* the envelope; and a get-messages call that follows with that identifier reads
\* the same thread: the same messages, by role and content, as the conversation.
C5_NewThreadUsedThroughout ==
    [][/\ ChatNoThreadStep =>
            /\ Cardinality({i \in DOMAIN calls' : calls'[i].op = "create_thread"}) = 1
            /\ calls'[1].op = "create_thread"
            /\ ~calls'[1].raised =>
                  /\ calls'[1].thread_id \notin DOMAIN threads
                  /\ DOMAIN threads' = DOMAIN threads \cup {calls'[1].thread_id}
                  /\ \A i \in DOMAIN calls' : calls'[i].thread_id = calls'[1].thread_id
                  /\ Len(calls') >= 2 /\ calls'[2].op = "post_message"
                  /\ resp'.body.thread_id = calls'[1].thread_id
            /\ calls'[1].raised => DOMAIN threads' = DOMAIN threads
       /\ (/\ ChatNoThread /\ resp.status = 200
           /\ req'.endpoint = "messages"
           /\ req'.path = resp.body.thread_id
           /\ ~calls'[1].raised) =>
              /\ resp'.status = 200
              /\ resp'.body.thread_id = resp.body.thread_id
              /\ RoleContent(resp'.body.messages) = RoleContent(resp.body.conversation)
      ]_vars
C5_Witness ==
    /\ ChatNoThread
    /\ resp.status = 200
    /\ resp.body.thread_id = "t2"
    /\ Len(resp.body.conversation) = 2
    /\ Len(threads["t1"]) = 0

\* the run of this request ended with status "failed"
FailedRun == \E i \in CallsOf("run_and_wait") : ~calls[i].raised /\ calls[i].status = "failed"
ThreadInUse == calls[CHOOSE i \in CallsOf("run_and_wait") : TRUE].thread_id

\* C6: when the run of a chat request ends "failed", the envelope has
\* success=false, the platform's error detail and the thread id in use, the
\* HTTP status is 500 and the thread's messages are not listed.
C6_FailedRun500 ==
    (ChatReq /\ FailedRun) =>
        /\ resp.status = 500
        /\ resp.body.success = FALSE
        /\ resp.body.error = <<"Agent run failed: ", PlatformLastError>>
        /\ resp.body.thread_id = ThreadInUse
        /\ ThreadInUse \in DOMAIN threads
        /\ CallsOf("list_messages") = {}
C6_Witness ==
    /\ ChatReq /\ FailedRun
    /\ ~HasKey("thread_id")
    /\ resp.status = 500
    /\ resp.body.thread_id = "t1"

\* the thread ids the handler knew: supplied in the body or the path, or created
KnownThreadIds ==
    (IF ChatReq /\ HasKey("thread_id") /\ SuppliedThread # None
     THEN {SuppliedThread} ELSE {})
    \cup (IF req.endpoint = "messages" THEN {req.path} ELSE {})
    \cup {calls[i].thread_id : i \in {j \in CallsOf("create_thread") : ~calls[j].raised}}

\* C7: every 200 or 500 response of chat, new-thread and get-messages, the 500
\* of the handlers' own except branches included, contains the thread_id
\* whenever the request supplied one or a thread was created while handling it.
C7_ThreadIdWheneverKnown ==
    (/\ Initialized /\ req.endpoint \in AgentEndpoints
     /\ resp.status \in {200, 500}
     /\ KnownThreadIds # {}) =>
        /\ BodyHas("thread_id")
        /\ resp.body.thread_id \in KnownThreadIds

HasBooleanSuccess == BodyHas("success") /\ resp.body.success \in BOOLEAN

\* C8 as stated: every response of the four endpoints includes a boolean success.
C8_AllResponsesHaveSuccess ==
    req.endpoint \in AgentEndpoints \cup {"health"} => HasBooleanSuccess

\* C8 amended: every response of chat, new-thread and get-messages includes a
\* boolean success; the health check's response has no success field and
\* carries status and agent_available instead.
C8_AgentResponsesHaveSuccess ==
    /\ req.endpoint \in AgentEndpoints => HasBooleanSuccess
    /\ req.endpoint = "health" =>
          DOMAIN resp.body = {"status", "service", "timestamp", "agent_available"}
C8_Witness ==
    /\ ~Initialized
    /\ req.endpoint = "new-thread"
    /\ resp.status = 503
    /\ resp.body.success = FALSE

\* a message whose last text segment has no text: formatting it raises
Malformed(msg) ==
    /\ Len(msg.text_messages) > 0
    /\ msg.text_messages[Len(msg.text_messages)].text = None
MappingFailed ==
    \E i \in CallsOf("list_messages") :
        /\ ~calls[i].raised
        /\ \E k \in DOMAIN threads[calls[i].thread_id] :
              Malformed(threads[calls[i].thread_id][k])
RaisedCalls == {i \in DOMAIN calls : calls[i].raised}
\* the description of the exception the failing step raised
FailureText ==
    IF RaisedCalls = {} THEN "'NoneType' object has no attribute 'value'"
    ELSE LET op == calls[CHOOSE i \in RaisedCalls : TRUE].op
         IN CASE op = "create_thread" -> "threads.create failed"
              [] op = "post_message" -> "messages.create failed"
              [] op = "run_and_wait" -> "runs.create_and_process failed"
              [] op = "list_messages" -> "messages.list failed"
CreatedIds == {calls[i].thread_id : i \in {j \in CallsOf("create_thread") : ~calls[j].raised}}

\* C9: with the gateway initialized, whichever platform operation raises, or the
\* formatting of a malformed message, the handler answers 500 with success=false
\* and the exception's description; the chat envelope carries the thread id
\* supplied or created, and a null thread_id only when thread creation failed.
C9_PlatformFailure500 ==
    (/\ Initialized /\ req.endpoint \in AgentEndpoints
     /\ (RaisedCalls # {} \/ MappingFailed)) =>
        /\ resp.status = 500
        /\ HasBooleanSuccess /\ resp.body.success = FALSE
        /\ BodyHas("error") /\ resp.body.error[2] = FailureText
        /\ ChatReq =>
              /\ resp.body.error[1] = "Error processing message: "
              /\ BodyHas("thread_id")
              /\ \A t \in CreatedIds : resp.body.thread_id = t
              /\ (HasKey("thread_id") /\ SuppliedThread \notin {None, ""}) =>
                    resp.body.thread_id = SuppliedThread
              /\ resp.body.thread_id = None =>
                    \E i \in CallsOf("create_thread") : calls[i].raised
C9_Witness ==
    /\ ChatReq /\ Initialized
    /\ ~HasKey("thread_id")
    /\ MappingFailed
    /\ resp.status = 500
    /\ resp.body.thread_id = "t1"

NoThreadGiven == ~HasKey("thread_id") \/ SuppliedThread \in {None, ""}
ExpectedOps ==
    IF NoThreadGiven
    THEN <<"create_thread", "post_message", "run_and_wait", "list_messages">>
    ELSE <<"post_message", "run_and_wait", "list_messages">>
HasText(msg) == msg.text_messages # <<>>
\* role and last text segment of the thread's messages that have text, in the
\* order the platform created them
ThreadRoleContent(tid) ==
    LET texts == SelectSeq(threads[tid], HasText)
    IN [i \in DOMAIN texts |->
          <<texts[i].role, texts[i].text_messages[Len(texts[i].text_messages)].text>>]

\* C10: within one chat request the platform calls are a prefix of create (only
\* without a thread id), post, run, list, each at most once and only after the
\* previous one returned; the sequence stops early only on a raise or a failed
\* run; list is called only after a run that returned with a status other than
\* "failed", and then, for every such status, a listing that is returned and
\* formatted gives 200 and success=true with the thread id, the run status and
\* the thread's messages in the platform's ascending order.
C10_SequentialCalls ==
    Dispatched =>
        /\ Len(calls) >= 1 /\ Len(calls) <= Len(ExpectedOps)
        /\ \A i \in DOMAIN calls :
              /\ calls[i].op = ExpectedOps[i]
              /\ i < Len(calls) => ~calls[i].raised
        /\ Len(calls) < Len(ExpectedOps) =>
              \/ calls[Len(calls)].raised
              \/ /\ calls[Len(calls)].op = "run_and_wait"
                 /\ calls[Len(calls)].status = "failed"
        /\ \A i \in CallsOf("list_messages") :
              /\ calls[i - 1].op = "run_and_wait"
              /\ ~calls[i - 1].raised
              /\ calls[i - 1].status \in RunStatuses \ {"failed"}
              /\ (~calls[i].raised /\ ~MappingFailed) =>
                    /\ resp.status = 200
                    /\ resp.body.success = TRUE
                    /\ resp.body.thread_id = calls[i].thread_id
                    /\ resp.body.run_status = calls[i - 1].status
                    /\ RoleContent(resp.body.conversation)
                          = ThreadRoleContent(calls[i].thread_id)
C10_Witness ==
    /\ Dispatched
    /\ Len(calls) = 4
    /\ resp.status = 200
    /\ resp.body.run_status = "cancelled"
    /\ Len(resp.body.conversation) = 1

====
